---------------------------- MODULE Spec2Model ----------------------------
(***************************************************************************)
(* proc_exporter: the classification engine (collector/config.go, kept in  *)
(* src/unnamed/part_000) and the aggregation pass                          *)
(* (src/collector/collector.go), with main's wiring (src/proc_exporter.go).*)
(*                                                                         *)
(* Strings are sequences of one-character strings, so that filepath.Base,  *)
(* strings.Join, strings.Contains and the regexp search are computed, not  *)
(* assumed.  CPU seconds and start times are kept in hundredths of a       *)
(* second (ticks / userHZ with userHZ = 100 is exactly "ticks hundredths").*)
(***************************************************************************)
EXTENDS Integers, Sequences, FiniteSets, TLC

VARIABLES
    yaml,        \* the parsed YAML rule list handed to GetConfig
    matchnamer,  \* main's matchnamer / procCollector.matchnamer
    nacl,        \* a NameAndCmdline under classification
    out,         \* the last result returned by a classifier call
    scrape,      \* procCollector.errors.scrape
    pass,        \* per scrape goroutine: the locals of Collect/readProcGroups
    emitted      \* per scrape goroutine: the metrics Collect sent on ch

vars == <<yaml, matchnamer, nacl, out, scrape, pass, emitted>>

-----------------------------------------------------------------------------
(* Bounds of the model. *)

MaxRules == 2
MaxList == 2
MaxProcs == 2
MaxScrapes == 2

-----------------------------------------------------------------------------
(* Strings. *)

Slash == "/"
S_f == <<"f">>
S_g == <<"g">>
S_uf == <<"/", "u", "/", "f">>
S_of == <<"/", "o", "/", "f">>
S_a == <<"r", "=", "a">>
S_b == <<"r", "=", "b">>
EmptyStr == <<>>

\* strings.Contains(e, "/")
ContainsSlash(s) == \E i \in 1..Len(s) : s[i] = Slash

\* strings.Join(tokens, " ")
RECURSIVE Join(_)
Join(tokens) ==
    IF Len(tokens) = 0 THEN EmptyStr
    ELSE IF Len(tokens) = 1 THEN tokens[1]
    ELSE tokens[1] \o <<" ">> \o Join(Tail(tokens))

\* filepath.Base: "" -> ".", trailing slashes stripped, the part after the
\* last slash, and "/" when the path was all slashes.
RECURSIVE StripTrailingSlashes(_)
StripTrailingSlashes(p) ==
    IF Len(p) > 0 /\ p[Len(p)] = Slash
    THEN StripTrailingSlashes(SubSeq(p, 1, Len(p) - 1))
    ELSE p

LastSlash(p) ==
    LET idx == {i \in 1..Len(p) : p[i] = Slash}
    IN  IF idx = {} THEN 0 ELSE CHOOSE i \in idx : \A j \in idx : j <= i

Base(path) ==
    IF path = EmptyStr THEN <<".">>
    ELSE LET p == StripTrailingSlashes(path)
             q == SubSeq(p, LastSlash(p) + 1, Len(p))
         IN  IF q = EmptyStr THEN <<"/">> ELSE q

\* Go map assignment m[k] = v
MapPut(m, k, v) == [x \in (DOMAIN m) \cup {k} |-> IF x = k THEN v ELSE m[x]]
EmptyMap == <<>>

-----------------------------------------------------------------------------
(* The regexp library, for a fragment of its syntax: an optional ^ anchor  *)
(* followed by elements that each consume one character: a literal, an     *)
(* unnamed group (.) or a named group (?P<n>.).                            *)

Lit(c) == [kind |-> "lit", ch |-> c, name |-> ""]
Grp(n) == [kind |-> "grp", ch |-> "", name |-> n]
Regex(anch, es) == [anchored |-> anch, elems |-> es]

\* regexp.SubexpNames: "" for the whole match, then one name per group
\* ("" for an unnamed group).
GroupElems(re) == SelectSeq(re.elems, LAMBDA e : e.kind = "grp")
SubexpNames(re) ==
    LET g == GroupElems(re)
    IN  <<"">> \o [i \in 1..Len(g) |-> g[i].name]

MatchesAt(re, s, pos) ==
    /\ pos + Len(re.elems) - 1 <= Len(s)
    /\ \A j \in 1..Len(re.elems) :
          re.elems[j].kind = "lit" => s[pos + j - 1] = re.elems[j].ch

\* regexp.FindStringSubmatch: nil when nothing matches, otherwise the text of
\* the leftmost match followed by the text of each group.
NoSubmatch == [isnil |-> TRUE, caps |-> <<>>]
FindStringSubmatch(re, s) ==
    LET starts == IF re.anchored THEN {1} ELSE 1..(Len(s) + 1)
        hits == {p \in starts : MatchesAt(re, s, p)}
    IN  IF hits = {} THEN NoSubmatch
        ELSE LET p == CHOOSE x \in hits : \A y \in hits : x <= y
                 gidx == SelectSeq([j \in 1..Len(re.elems) |-> j],
                                   LAMBDA j : re.elems[j].kind = "grp")
             IN  [isnil |-> FALSE,
                  caps |-> <<SubSeq(s, p, p + Len(re.elems) - 1)>>
                           \o [i \in 1..Len(gidx) |-> <<s[p + gidx[i] - 1]>>]]

-----------------------------------------------------------------------------
(* Matchers (part_000 lines 125-180).  A Match result is (bool, map); a nil  *)
(* map is told apart from an empty one.                                    *)

NilMap == [isnil |-> TRUE, kv |-> EmptyMap]
SomeMap(m) == [isnil |-> FALSE, kv |-> m]
MatchResult(b, m) == [ok |-> b, matches |-> m]

CommMatcherOf(cs) == [kind |-> "comm", comms |-> cs, exes |-> EmptyMap, regexes |-> <<>>]
ExeMatcherOf(es) == [kind |-> "exe", comms |-> {}, exes |-> es, regexes |-> <<>>]
CmdlineMatcherOf(rs) == [kind |-> "cmdline", comms |-> {}, exes |-> EmptyMap, regexes |-> rs]

\* commMatcher.Match
CommMatch(m, n) == MatchResult(n.Name \in m.comms, NilMap)

\* exeMatcher.Match
ExeMatch(m, n) ==
    IF Len(n.Cmdline) = 0 THEN MatchResult(FALSE, NilMap)
    ELSE LET thisbase == Base(n.Cmdline[1])
             found == thisbase \in DOMAIN m.exes
         IN  IF ~found THEN MatchResult(FALSE, NilMap)
             ELSE IF m.exes[thisbase] = EmptyStr THEN MatchResult(TRUE, NilMap)
             ELSE MatchResult(m.exes[thisbase] = n.Cmdline[1], NilMap)

\* the inner loop of cmdlineMatcher.Match: matches[name] = regexCaptures[i]
RECURSIVE PutCaptures(_, _, _, _)
PutCaptures(matches, names, caps, i) ==
    IF i > Len(names) THEN matches
    ELSE PutCaptures(MapPut(matches, names[i], caps[i]), names, caps, i + 1)

\* the outer loop of cmdlineMatcher.Match, from regex k on
RECURSIVE CmdlineLoop(_, _, _, _)
CmdlineLoop(regexes, k, matches, n) ==
    IF k > Len(regexes) THEN MatchResult(TRUE, SomeMap(matches))
    ELSE LET Found(regexCaptures, subexpNames) ==
                 IF regexCaptures.isnil THEN MatchResult(FALSE, NilMap)
                 ELSE IF Len(subexpNames) # Len(regexCaptures.caps)
                      THEN MatchResult(FALSE, NilMap)
                 ELSE CmdlineLoop(regexes, k + 1,
                          PutCaptures(matches, subexpNames, regexCaptures.caps, 1), n)
         IN  Found(FindStringSubmatch(regexes[k], Join(n.Cmdline)),
                   SubexpNames(regexes[k]))

\* a cmdline matcher that hands back the captures gathered before a failure
RECURSIVE PartialLoop(_, _, _, _)
PartialLoop(regexes, k, matches, n) ==
    IF k > Len(regexes) THEN MatchResult(TRUE, SomeMap(matches))
    ELSE LET Found(regexCaptures, subexpNames) ==
                 IF regexCaptures.isnil THEN MatchResult(FALSE, SomeMap(matches))
                 ELSE PartialLoop(regexes, k + 1,
                          PutCaptures(matches, subexpNames, regexCaptures.caps, 1), n)
         IN  Found(FindStringSubmatch(regexes[k], Join(n.Cmdline)),
                   SubexpNames(regexes[k]))

CmdlineMatchPartial(m, n) == PartialLoop(m.regexes, 1, EmptyMap, n)

\* cmdlineMatcher.Match
CmdlineMatch(m, n) == CmdlineLoop(m.regexes, 1, EmptyMap, n)

\* Matcher.Match through the interface
MatcherMatch(m, n) ==
    CASE m.kind = "comm" -> CommMatch(m, n)
      [] m.kind = "exe" -> ExeMatch(m, n)
      [] m.kind = "cmdline" -> CmdlineMatch(m, n)

\* for k, v := range matches { allMatches[k] = v }
MergeInto(allMatches, kv) ==
    [x \in (DOMAIN allMatches) \cup (DOMAIN kv) |->
        IF x \in DOMAIN kv THEN kv[x] ELSE allMatches[x]]

\* the loop of andMatcher.Match, from matcher k on
RECURSIVE AndLoop(_, _, _, _)
AndLoop(ms, k, allMatches, n) ==
    IF k > Len(ms) THEN MatchResult(TRUE, SomeMap(allMatches))
    ELSE LET Matched(r) ==
                 IF ~r.ok THEN MatchResult(FALSE, NilMap)
                 ELSE AndLoop(ms, k + 1,
                              IF r.matches.isnil THEN allMatches
                              ELSE MergeInto(allMatches, r.matches.kv),
                              n)
         IN  Matched(MatcherMatch(ms[k], n))

\* andMatcher.Match
AndMatch(ms, n) == AndLoop(ms, 1, EmptyMap, n)

-----------------------------------------------------------------------------
(* Name templates: a parsed template is a sequence of parts, each a literal *)
(* or one of the fields .Comm, .ExeBase, .ExeFull of templateParams.        *)

TLit(s) == [field |-> "lit", text |-> s]
TField(f) == [field |-> f, text |-> EmptyStr]
DefaultTemplate == <<TField("ExeBase")>>

TemplateParams(n, exebase, exefull, matches) ==
    [Comm |-> n.Name, ExeBase |-> exebase, ExeFull |-> exefull, Matches |-> matches]

RenderPart(part, params) ==
    CASE part.field = "lit" -> part.text
      [] part.field = "Comm" -> params.Comm
      [] part.field = "ExeBase" -> params.ExeBase
      [] part.field = "ExeFull" -> params.ExeFull

\* template.Execute into the buffer
RECURSIVE Execute(_, _)
Execute(tmpl, params) ==
    IF Len(tmpl) = 0 THEN EmptyStr
    ELSE RenderPart(tmpl[1], params) \o Execute(Tail(tmpl), params)

NameResult(b, s) == [matched |-> b, name |-> s]
NoName == NameResult(FALSE, EmptyStr)

\* matchNamer.MatchAndName
RuleMatchAndName(rule, n) ==
    LET exefull == IF Len(n.Cmdline) > 0 THEN n.Cmdline[1] ELSE n.Name
        exebase == IF Len(n.Cmdline) > 0 THEN Base(n.Cmdline[1]) ELSE n.Name
        Named(r) ==
            IF ~r.ok THEN NoName
            ELSE NameResult(TRUE,
                     Execute(rule.template,
                             TemplateParams(n, exebase, exefull, r.matches)))
    IN  Named(AndMatch(rule.matchers, n))

\* the loop of FirstMatcher.MatchAndName, from rule k on
RECURSIVE FirstLoop(_, _, _)
FirstLoop(f, k, n) ==
    IF k > Len(f) THEN NoName
    ELSE LET Tried(r) ==
                 IF r.matched THEN NameResult(TRUE, r.name) ELSE FirstLoop(f, k + 1, n)
         IN  Tried(RuleMatchAndName(f[k], n))

\* a classifier in which the last matching rule wins
RECURSIVE LastLoop(_, _, _)
LastLoop(f, k, n) ==
    IF k < 1 THEN NoName
    ELSE LET Tried(r) ==
                 IF r.matched THEN NameResult(TRUE, r.name) ELSE LastLoop(f, k - 1, n)
         IN  Tried(RuleMatchAndName(f[k], n))

LastMatchAndName(f, n) == LastLoop(f, Len(f), n)

\* FirstMatcher.MatchAndName
FirstMatchAndName(f, n) == FirstLoop(f, 1, n)

-----------------------------------------------------------------------------
(* Configuration (part_000 lines 192-303).  A YAML entry is the smap and    *)
(* nametmpl that getMatchNamer extracts: each of comm, exe, cmdline is      *)
(* present or not; patterns and templates are given already compiled, the  *)
(* entries drawn being those that compile.                                 *)

Entry(nm, hc, c, he, e, hr, r) ==
    [name |-> nm, hasComm |-> hc, comm |-> c, hasExe |-> he, exe |-> e,
     hasCmdline |-> hr, cmdline |-> r]

\* comms[c] = struct{}{} for each c
CommsOf(list) == {list[i] : i \in 1..Len(list)}

\* the exes loop of getMatchNamer, from entry k on
RECURSIVE ExesLoop(_, _, _)
ExesLoop(list, k, exes) ==
    IF k > Len(list) THEN exes
    ELSE ExesLoop(list, k + 1,
                  IF ContainsSlash(list[k])
                  THEN MapPut(exes, Base(list[k]), list[k])
                  ELSE MapPut(exes, list[k], EmptyStr))

ExesOf(list) == ExesLoop(list, 1, EmptyMap)

\* getMatchNamer
GetMatchNamer(e) ==
    LET matchers ==
            (IF e.hasComm THEN <<CommMatcherOf(CommsOf(e.comm))>> ELSE <<>>)
            \o (IF e.hasExe THEN <<ExeMatcherOf(ExesOf(e.exe))>> ELSE <<>>)
            \o (IF e.hasCmdline THEN <<CmdlineMatcherOf(e.cmdline)>> ELSE <<>>)
        nametmpl == IF e.name = <<>> THEN DefaultTemplate ELSE e.name
    IN  IF Len(matchers) = 0
        THEN [err |-> TRUE, mn |-> [matchers |-> <<>>, template |-> <<>>]]
        ELSE [err |-> FALSE, mn |-> [matchers |-> matchers, template |-> nametmpl]]

\* the loop of GetConfig, from entry k on
RECURSIVE ConfigLoop(_, _, _)
ConfigLoop(procnames, k, namers) ==
    IF k > Len(procnames) THEN [err |-> FALSE, MatchNamers |-> namers]
    ELSE LET Parsed(r) ==
                 IF r.err THEN [err |-> TRUE, MatchNamers |-> <<>>]
                 ELSE ConfigLoop(procnames, k + 1, Append(namers, r.mn))
         IN  Parsed(GetMatchNamer(procnames[k]))

\* GetConfig
GetConfig(procnames) == ConfigLoop(procnames, 1, <<>>)

\* The MatchNamer interface value main holds: nil until a config is read.
NilMatchNamer == [kind |-> "nil", rules |-> <<>>]
FirstMatcherOf(f) == [kind |-> "first", rules |-> f]
ConfigFailed == [kind |-> "fatal", rules |-> <<>>]
-----------------------------------------------------------------------------
(* Inputs of the classification engine. *)

NaclOf(name, cmdline) == [Name |-> name, Cmdline |-> cmdline]

Nacls ==
    { NaclOf(S_f, <<S_uf>>),
      NaclOf(S_f, <<S_of, S_a>>),
      NaclOf(S_f, <<S_f, S_a, S_b>>),
      NaclOf(S_f, <<S_f, S_b, S_a>>),
      NaclOf(S_f, <<S_f>>),
      NaclOf(S_g, <<S_g, S_a>>),
      NaclOf(S_g, <<S_uf, S_b>>),
      NaclOf(S_g, <<>>) }

\* ^f
RxAnchF == Regex(TRUE, <<Lit("f")>>)
\* r=(?P<r>.)
RxRole == Regex(FALSE, <<Lit("r"), Lit("="), Grp("r")>>)
\* (?P<r>.)=b
RxKey == Regex(FALSE, <<Grp("r"), Lit("="), Lit("b")>>)
\* "f r": matches only across the space that joins two tokens
RxJoin == Regex(FALSE, <<Lit("f"), Lit(" "), Lit("r")>>)
\* (.)=(?P<k>.)
RxMixed == Regex(FALSE, <<Grp(""), Lit("="), Grp("k")>>)

RegexSet == {RxAnchF, RxRole, RxKey, RxJoin, RxMixed}
ExeNames == {S_f, S_g, S_uf, S_of}

SeqsUpTo(S, n) == UNION {[1..k -> S] : k \in 0..n}

ExeEntry(l) == Entry(<<>>, FALSE, <<>>, TRUE, l, FALSE, <<>>)
CmdlineEntry(l) == Entry(<<>>, FALSE, <<>>, FALSE, <<>>, TRUE, l)

EntrySet ==
    { ExeEntry(<<S_f>>),
      Entry(<<TField("Comm"), TLit(<<"-", "c">>)>>, TRUE, <<S_f>>, FALSE, <<>>, FALSE, <<>>),
      Entry(<<TLit(<<"r", "o", "l", "e">>)>>, FALSE, <<>>, FALSE, <<>>, TRUE, <<RxRole>>),
      Entry(<<TField("ExeFull")>>, FALSE, <<>>, TRUE, <<S_uf>>, FALSE, <<>>),
      Entry(<<TField("Comm")>>, TRUE, <<S_g>>, FALSE, <<>>, TRUE, <<RxRole>>),
      Entry(<<>>, FALSE, <<>>, FALSE, <<>>, FALSE, <<>>) }

YamlDocs ==
    SeqsUpTo(EntrySet, MaxRules)
    \cup {<<ExeEntry(l)>> : l \in SeqsUpTo(ExeNames, MaxList)}
    \cup {<<CmdlineEntry(l)>> : l \in SeqsUpTo(RegexSet, MaxList)}

-----------------------------------------------------------------------------
(* State of one scrape goroutine inside Collect / readProcGroups. *)

NilGroups == [isnil |-> TRUE, kv |-> EmptyMap]
IdlePass ==
    [pc |-> "idle", procs |-> <<>>, i |-> 0, bootTime |-> 0, bootErr |-> FALSE,
     procGroups |-> NilGroups, err |-> FALSE, reg |-> 0, next |-> "idle", nth |-> 0]

NoOut == [op |-> "none", rule |-> 0, idx |-> 0, name |-> NoName,
          match |-> MatchResult(FALSE, NilMap)]

-----------------------------------------------------------------------------
(* The classification engine applied to drawn inputs:                      *)
(* main reads the config, then classifier calls are made on a process.     *)

InitMatch ==
    /\ yaml \in YamlDocs
    /\ matchnamer = NilMatchNamer
    /\ nacl \in Nacls
    /\ out = NoOut
    /\ scrape = 0
    /\ pass = [w \in {1} |-> IdlePass]
    /\ emitted = [w \in {1} |-> {}]

\* main, lines 29-36: ReadConfig, log.Fatalf on error, else cfg.MatchNamers
ReadConfigStep ==
    /\ matchnamer.kind = "nil"
    /\ LET cfg == GetConfig(yaml)
       IN  matchnamer' = IF cfg.err THEN ConfigFailed
                         ELSE FirstMatcherOf(cfg.MatchNamers)
    /\ UNCHANGED <<yaml, nacl, out, scrape, pass, emitted>>

\* FirstMatcher.MatchAndName(nacl)
MatchAndNameStep ==
    /\ matchnamer.kind = "first"
    /\ out' = [NoOut EXCEPT !.op = "MatchAndName",
                            !.name = FirstMatchAndName(matchnamer.rules, nacl)]
    /\ UNCHANGED <<yaml, matchnamer, nacl, scrape, pass, emitted>>

\* andMatcher.Match(nacl) of rule k
AndMatchStep ==
    /\ matchnamer.kind = "first"
    /\ \E k \in 1..Len(matchnamer.rules) :
          out' = [NoOut EXCEPT !.op = "AndMatch", !.rule = k,
                               !.match = AndMatch(matchnamer.rules[k].matchers, nacl)]
    /\ UNCHANGED <<yaml, matchnamer, nacl, scrape, pass, emitted>>

\* Match(nacl) of matcher j of rule k
MatcherMatchStep ==
    /\ matchnamer.kind = "first"
    /\ \E k \in 1..Len(matchnamer.rules) :
         \E j \in 1..Len(matchnamer.rules[k].matchers) :
            out' = [NoOut EXCEPT !.op = "Match", !.rule = k, !.idx = j,
                       !.match = MatcherMatch(matchnamer.rules[k].matchers[j], nacl)]
    /\ UNCHANGED <<yaml, matchnamer, nacl, scrape, pass, emitted>>

NextMatch ==
    \/ ReadConfigStep
    \/ MatchAndNameStep
    \/ AndMatchStep
    \/ MatcherMatchStep

SpecMatch == InitMatch /\ [][NextMatch]_vars
-----------------------------------------------------------------------------
(* The process table as the procfs and os/user collaborators present it:   *)
(* per process the outcome of NewStat and CmdLine, the fields of its stat, *)
(* and the outcome of the account lookup.                                  *)

userHZ == 100

Metrics(st, ut, vm, rm, nt, start) ==
    [STime |-> st, UTime |-> ut, VirtualMemory |-> vm, ResidentMemory |-> rm,
     NumThreads |-> nt, Starttime |-> start]

Account(statErr, sysOk, lookupErr, user) ==
    [osStatErr |-> statErr, sysOk |-> sysOk, lookupErr |-> lookupErr, Username |-> user]

Proc(statErr, cmdlineErr, id, m, a) ==
    [statErr |-> statErr, cmdlineErr |-> cmdlineErr, Comm |-> id.Name,
     Cmdline |-> id.Cmdline, stat |-> m, acct |-> a]

ProcA == NaclOf(S_f, <<S_uf>>)
ProcB == NaclOf(S_g, <<>>)
EarlyMetrics == Metrics(150, 250, 4096, 8192, 1, 0)
LateMetrics == Metrics(30, 70, 100, 60, 3, 500)
Alice == Account(FALSE, TRUE, FALSE, "alice")
NoUser == Account(FALSE, TRUE, TRUE, "")
NoProcDir == Account(TRUE, TRUE, FALSE, "")

\* os.Stat on a unix build always carries a *syscall.Stat_t, so sysOk is
\* TRUE for every process drawn.
ProcUniverse ==
    {Proc(FALSE, FALSE, id, m, a) :
        id \in {ProcA, ProcB}, m \in {EarlyMetrics, LateMetrics}, a \in {Alice, NoUser}}
    \cup {Proc(FALSE, FALSE, ProcA, LateMetrics, NoProcDir),
          Proc(TRUE, FALSE, ProcA, EarlyMetrics, Alice),
          Proc(FALSE, TRUE, ProcA, LateMetrics, Alice)}

Tables == SeqsUpTo(ProcUniverse, MaxProcs)

\* procfs.NewStat: the boot time, or an error and the zero Stat
BootOutcomes == {[err |-> TRUE, BootTime |-> 0], [err |-> FALSE, BootTime |-> 10]}

\* a lookup that reports no error when the user is unknown
GetProcAccountSilent(p) ==
    IF p.acct.osStatErr THEN [account |-> "", err |-> TRUE]
    ELSE [account |-> IF p.acct.lookupErr THEN "" ELSE p.acct.Username, err |-> FALSE]

\* getProcAccount
GetProcAccount(p) ==
    IF p.acct.osStatErr THEN [account |-> "", err |-> TRUE]
    ELSE IF ~p.acct.sysOk THEN [account |-> "", err |-> FALSE]
    ELSE IF p.acct.lookupErr THEN [account |-> "", err |-> TRUE]
    ELSE [account |-> p.acct.Username, err |-> FALSE]

-----------------------------------------------------------------------------
(* readProcGroups, lines 140-193: the body of the loop for one process.    *)

GroupKey(account, gname) == [account |-> account, groupname |-> gname]

NewProcGroup(gname, account) ==
    [name |-> gname, account |-> account, cpuSystem |-> 0, cpuUser |-> 0,
     memVirt |-> 0, memRss |-> 0, numProcs |-> 0, numThreads |-> 0,
     oldestStartTime |-> 0]

\* startTime := float64(bootTime) + float64(stat.Starttime)/userHZ, in hundredths
StartTime(bootTime, p) == bootTime * userHZ + p.stat.Starttime

\* lines 184-192: update group
UpdateGroup(g, bootTime, p) ==
    LET startTime == StartTime(bootTime, p)
    IN  [g EXCEPT !.cpuSystem = @ + p.stat.STime,
                  !.cpuUser = @ + p.stat.UTime,
                  !.memVirt = @ + p.stat.VirtualMemory,
                  !.memRss = @ + p.stat.ResidentMemory,
                  !.numProcs = @ + 1,
                  !.numThreads = @ + p.stat.NumThreads,
                  !.oldestStartTime =
                      IF @ = 0 \/ startTime < @ THEN startTime ELSE @]

BodyResult(groups, inc, panic) == [groups |-> groups, inc |-> inc, panic |-> panic]

\* lines 153-192, for a process whose stat and cmdline were read: the call
\* through the MatchNamer interface (a nil interface panics), the account
\* lookup and the fold into the group.
ClassifyAndFold(mn, bootTime, groups, p) ==
    IF mn.kind = "nil" THEN BodyResult(groups, 0, TRUE)
    ELSE LET Fold(gkey, gname, a) ==
                 BodyResult(MapPut(groups, gkey,
                                UpdateGroup(IF gkey \in DOMAIN groups THEN groups[gkey]
                                            ELSE NewProcGroup(gname, a.account),
                                            bootTime, p)),
                            IF a.err THEN 1 ELSE 0, FALSE)
             WithAccount(r, a) == Fold(GroupKey(a.account, r.name), r.name, a)
             Classified(r) ==
                 IF ~r.matched THEN BodyResult(groups, 0, FALSE)
                 ELSE WithAccount(r, GetProcAccount(p))
         IN  Classified(FirstMatchAndName(mn.rules, NaclOf(p.Comm, p.Cmdline)))

\* a loop body that goes on with a process whose cmdline could not be read
LoopBodyKeepsUnread(mn, bootTime, groups, p) ==
    IF p.statErr THEN BodyResult(groups, 1, FALSE)
    ELSE ClassifyAndFold(mn, bootTime, groups, p)

\* One iteration, lines 140-193: the groups after it, the increment of
\* errors.scrape it makes (0 or 1), and whether it panicked.
LoopBody(mn, bootTime, groups, p) ==
    IF p.statErr THEN BodyResult(groups, 1, FALSE)
    ELSE IF p.cmdlineErr THEN BodyResult(groups, 1, FALSE)
    ELSE ClassifyAndFold(mn, bootTime, groups, p)

\* The loop run over a whole table from the empty map: its groups, the
\* increments it makes, and whether it panicked on the way.
RECURSIVE RunLoop(_, _, _, _, _, _)
RunLoop(mn, bootTime, procs, k, groups, incs) ==
    IF k > Len(procs) THEN [groups |-> groups, incs |-> incs, panic |-> FALSE]
    ELSE LET After(r) ==
                 IF r.panic THEN [groups |-> groups, incs |-> incs, panic |-> TRUE]
                 ELSE RunLoop(mn, bootTime, procs, k + 1, r.groups, incs + r.inc)
         IN  After(LoopBody(mn, bootTime, groups, procs[k]))

RunPass(mn, bootTime, procs) == RunLoop(mn, bootTime, procs, 1, EmptyMap, 0)

-----------------------------------------------------------------------------
(* Collect, lines 106-120: the metrics sent on ch. *)

Labels(account, gname, mode) == [account |-> account, groupname |-> gname, mode |-> mode]
Metric(desc, value, labels) == [desc |-> desc, value |-> value, labels |-> labels]

GroupMetrics(g) ==
    { Metric("cpu", g.cpuSystem, Labels(g.account, g.name, "system")),
      Metric("cpu", g.cpuUser, Labels(g.account, g.name, "user")),
      Metric("memory", g.memVirt, Labels(g.account, g.name, "virtual")),
      Metric("memory", g.memRss, Labels(g.account, g.name, "resident")),
      Metric("numProcs", g.numProcs, Labels(g.account, g.name, "")),
      Metric("numThreads", g.numThreads, Labels(g.account, g.name, "")),
      Metric("oldestStartTime", g.oldestStartTime, Labels(g.account, g.name, "")) }

ScrapeErrorsMetric(v) == Metric("scrapeErrors", v, Labels("", EmptyStr, ""))

\* a Collect that sends the error count only along with groups
CollectMetricsWithGroups(procGroups, errors) ==
    IF procGroups.isnil THEN {}
    ELSE UNION {GroupMetrics(procGroups.kv[k]) : k \in DOMAIN procGroups.kv}
         \cup {ScrapeErrorsMetric(errors)}

\* ranging over a nil map sends nothing
CollectMetrics(procGroups, errors) ==
    UNION {GroupMetrics(procGroups.kv[k]) : k \in DOMAIN procGroups.kv}
    \cup {ScrapeErrorsMetric(errors)}

-----------------------------------------------------------------------------
(* The exporter serving scrapes.  main leaves matchnamer nil when no config *)
(* path is given and otherwise sets it from the config it read.            *)

PassDocs ==
    { <<ExeEntry(<<S_f>>),
        Entry(<<TField("Comm")>>, TRUE, <<S_g>>, FALSE, <<>>, FALSE, <<>>)>>,
      <<Entry(<<TField("ExeFull")>>, FALSE, <<>>, TRUE, <<S_uf>>, FALSE, <<>>)>> }

Scrapers == DOMAIN pass

InitServing(ws, docs, withoutConfig) ==
    /\ \/ /\ withoutConfig
          /\ yaml = <<>>
          /\ matchnamer = NilMatchNamer
       \/ /\ yaml \in docs
          /\ matchnamer = FirstMatcherOf(GetConfig(yaml).MatchNamers)
    /\ nacl = NaclOf(EmptyStr, <<>>)
    /\ out = NoOut
    /\ scrape = 0
    /\ pass = [w \in ws |-> IdlePass]
    /\ emitted = [w \in ws |-> {}]

Init == InitServing({1}, PassDocs, TRUE)

\* Collect entered; procfs.AllProcs fails: lines 124-128
AllProcsFail(w) ==
    /\ pass[w].pc = "idle"
    /\ pass[w].nth < MaxScrapes
    /\ scrape' = scrape + 1
    /\ pass' = [pass EXCEPT ![w] =
                  [IdlePass EXCEPT !.pc = "ret", !.err = TRUE, !.nth = pass[w].nth + 1]]
    /\ emitted' = [emitted EXCEPT ![w] = {}]
    /\ UNCHANGED <<yaml, matchnamer, nacl, out>>

\* Collect entered; AllProcs returns a table, then procfs.NewStat: lines 124-138
BeginPass(w) ==
    /\ pass[w].pc = "idle"
    /\ pass[w].nth < MaxScrapes
    /\ \E t \in Tables, b \in BootOutcomes :
          /\ scrape' = IF b.err THEN scrape + 1 ELSE scrape
          /\ pass' = [pass EXCEPT ![w] =
                        [IdlePass EXCEPT !.pc = "loop", !.procs = t,
                                         !.bootTime = b.BootTime, !.bootErr = b.err,
                                         !.procGroups = SomeMap(EmptyMap),
                                         !.nth = pass[w].nth + 1]]
    /\ emitted' = [emitted EXCEPT ![w] = {}]
    /\ UNCHANGED <<yaml, matchnamer, nacl, out>>

\* one turn of the loop, lines 140-193
Iterate(w) ==
    /\ pass[w].pc = "loop"
    /\ pass[w].i < Len(pass[w].procs)
    /\ \E r \in {LoopBody(matchnamer, pass[w].bootTime, pass[w].procGroups.kv,
                          pass[w].procs[pass[w].i + 1])} :
          IF r.panic
          THEN /\ pass' = [pass EXCEPT ![w].pc = "panic"]
               /\ scrape' = scrape
          ELSE /\ pass' = [pass EXCEPT ![w].i = @ + 1,
                                       ![w].procGroups = SomeMap(r.groups)]
               /\ scrape' = scrape + r.inc
    /\ UNCHANGED <<yaml, matchnamer, nacl, out, emitted>>

\* readProcGroups returns and Collect sends the metrics: lines 107-119, 195
Emit(w) ==
    /\ \/ pass[w].pc = "ret"
       \/ pass[w].pc = "loop" /\ pass[w].i = Len(pass[w].procs)
    /\ emitted' = [emitted EXCEPT ![w] = CollectMetrics(pass[w].procGroups, scrape)]
    /\ pass' = [pass EXCEPT ![w].pc = "done"]
    /\ UNCHANGED <<yaml, matchnamer, nacl, out, scrape>>

\* Collect returns: its locals are gone and the metrics sent are with the
\* caller; the next scrape may come
CollectReturn(w) ==
    /\ pass[w].pc = "done"
    /\ pass' = [pass EXCEPT ![w] = [IdlePass EXCEPT !.nth = pass[w].nth]]
    /\ emitted' = [emitted EXCEPT ![w] = {}]
    /\ UNCHANGED <<yaml, matchnamer, nacl, out, scrape>>

Next ==
    \/ \E w \in Scrapers : AllProcsFail(w)
    \/ \E w \in Scrapers : BeginPass(w)
    \/ \E w \in Scrapers : Iterate(w)
    \/ \E w \in Scrapers : Emit(w)
    \/ \E w \in Scrapers : CollectReturn(w)

Spec == Init /\ [][Next]_vars

-----------------------------------------------------------------------------
(* Simultaneous scrapes: each scrape request is a goroutine of its own that *)
(* calls Collect once on the one collector.  errors.scrape += 1 is a plain  *)
(* load and a plain store with no lock around it, so the two are separate  *)
(* steps and other goroutines run in between.                              *)

ConcUniverse ==
    { Proc(TRUE, FALSE, ProcA, EarlyMetrics, Alice),
      Proc(FALSE, FALSE, ProcA, LateMetrics, NoUser),
      Proc(FALSE, FALSE, ProcB, LateMetrics, Alice) }

ConcTables == SeqsUpTo(ConcUniverse, MaxProcs)

InitConc == InitServing({1, 2}, PassDocs, FALSE)

\* the load of errors.scrape += 1; the store comes next
LoadScrape(pw, resume) == [pw EXCEPT !.reg = scrape, !.pc = "store", !.next = resume]

RaceAllProcsFail(w) ==
    /\ pass[w].pc = "idle"
    /\ pass' = [pass EXCEPT ![w] =
                  LoadScrape([IdlePass EXCEPT !.err = TRUE, !.nth = 1], "ret")]
    /\ UNCHANGED <<yaml, matchnamer, nacl, out, scrape, emitted>>

RaceBeginPass(w) ==
    /\ pass[w].pc = "idle"
    /\ \E t \in ConcTables, b \in BootOutcomes :
          LET pw == [IdlePass EXCEPT !.pc = "loop", !.procs = t,
                                     !.bootTime = b.BootTime, !.bootErr = b.err,
                                     !.procGroups = SomeMap(EmptyMap), !.nth = 1]
          IN  pass' = [pass EXCEPT ![w] = IF b.err THEN LoadScrape(pw, "loop") ELSE pw]
    /\ UNCHANGED <<yaml, matchnamer, nacl, out, scrape, emitted>>

RaceIterate(w) ==
    /\ pass[w].pc = "loop"
    /\ pass[w].i < Len(pass[w].procs)
    /\ \E r \in {LoopBody(matchnamer, pass[w].bootTime, pass[w].procGroups.kv,
                          pass[w].procs[pass[w].i + 1])} :
          \E pw \in {[pass[w] EXCEPT !.i = @ + 1, !.procGroups = SomeMap(r.groups)]} :
             pass' = [pass EXCEPT ![w] =
                         IF r.panic THEN [pass[w] EXCEPT !.pc = "panic"]
                         ELSE IF r.inc = 1 THEN LoadScrape(pw, "loop")
                         ELSE pw]
    /\ UNCHANGED <<yaml, matchnamer, nacl, out, scrape, emitted>>

\* the store of errors.scrape += 1
RaceStore(w) ==
    /\ pass[w].pc = "store"
    /\ scrape' = pass[w].reg + 1
    /\ pass' = [pass EXCEPT ![w].pc = pass[w].next]
    /\ UNCHANGED <<yaml, matchnamer, nacl, out, emitted>>

NextConc ==
    \/ \E w \in Scrapers : RaceAllProcsFail(w)
    \/ \E w \in Scrapers : RaceBeginPass(w)
    \/ \E w \in Scrapers : RaceIterate(w)
    \/ \E w \in Scrapers : RaceStore(w)
    \/ \E w \in Scrapers : Emit(w)

SpecConc == InitConc /\ [][NextConc]_vars

-----------------------------------------------------------------------------
(* Claims about the classification engine, under SpecMatch. *)

\* the rule a config entry stands for, and the entries whose rule matches
RuleOf(e) == GetMatchNamer(e).mn
MatchingRules(doc, n) ==
    {k \in 1..Len(doc) : RuleMatchAndName(RuleOf(doc[k]), n).matched}
MinOf(S) == CHOOSE x \in S : \A y \in S : x <= y
MaxOf(S) == CHOOSE x \in S : \A y \in S : y <= x

\* C1: FirstMatcher.MatchAndName returns the name produced by the lowest-index
\* rule, in the order of the configuration, that matches the process, and
\* (false, "") when no rule matches.
C1_FirstMatchWins ==
    out.op = "MatchAndName" =>
        LET M == MatchingRules(yaml, nacl)
        IN  IF M = {} THEN out.name = NameResult(FALSE, EmptyStr)
            ELSE out.name =
                    NameResult(TRUE, RuleMatchAndName(RuleOf(yaml[MinOf(M)]), nacl).name)

\* C1 witness: two rules match with different names and the earlier one's
\* name was returned.
C1_Witness ==
    /\ out.op = "MatchAndName"
    /\ \E a, b \in MatchingRules(yaml, nacl) :
          /\ a < b
          /\ RuleMatchAndName(RuleOf(yaml[a]), nacl).name
                # RuleMatchAndName(RuleOf(yaml[b]), nacl).name
          /\ out.name = NameResult(TRUE, RuleMatchAndName(RuleOf(yaml[a]), nacl).name)

\* The matcher a Match step was applied to, and the list it was configured from.
ProbedMatcher == matchnamer.rules[out.rule].matchers[out.idx]
ProbedEntry == yaml[out.rule]
Token == nacl.Cmdline[1]

\* An exe list entry accepts a first token: a bare name by basename, a full
\* path by equality.
EntryAccepts(e, tok) ==
    IF ContainsSlash(e) THEN tok = e ELSE Base(tok) = e

\* C6: an exe matcher built from a list matches no process with an empty
\* cmdline, matches every process whose first token's basename is a bare name
\* of the list, matches a process whose first token is exactly a full path of
\* the list, and matches on account of no other entry.
C6_ExeListSemantics ==
    (out.op = "Match" /\ ProbedMatcher.kind = "exe") =>
        LET list == ProbedEntry.exe
        IN  out.match.ok <=>
                /\ Len(nacl.Cmdline) > 0
                /\ \E i \in 1..Len(list) : EntryAccepts(list[i], Token)

\* The named groups of a regex list, and the value the claim gives each one:
\* that of the last regex of the list that has a group of that name.
NamedGroups(rs) ==
    UNION {{SubexpNames(rs[k])[i] : i \in 1..Len(SubexpNames(rs[k]))} :
              k \in 1..Len(rs)} \ {""}
HasGroup(re, g) == \E i \in 1..Len(SubexpNames(re)) : SubexpNames(re)[i] = g
GroupValue(re, g, s) ==
    LET i == CHOOSE x \in 1..Len(SubexpNames(re)) : SubexpNames(re)[x] = g
    IN  FindStringSubmatch(re, s).caps[i]

\* C7: a cmdline matcher matches iff every regex of its list finds a match in
\* the tokens joined by single spaces; on success each named group's value is
\* held under its name, the last regex with that group winning; on failure the
\* result is no match and no captures.
C7_CmdlineAllRegexes ==
    (out.op = "Match" /\ ProbedMatcher.kind = "cmdline") =>
        LET rs == ProbedEntry.cmdline
            s == Join(nacl.Cmdline)
            all == \A k \in 1..Len(rs) : ~FindStringSubmatch(rs[k], s).isnil
        IN  /\ out.match.ok <=> all
            /\ ~out.match.ok => out.match.matches = NilMap
            /\ out.match.ok =>
                  /\ ~out.match.matches.isnil
                  /\ \A g \in NamedGroups(rs) :
                        /\ g \in DOMAIN out.match.matches.kv
                        /\ out.match.matches.kv[g] =
                              GroupValue(rs[MaxOf({k \in 1..Len(rs) : HasGroup(rs[k], g)})], g, s)

\* C7 witness, success: two regexes with the same named group both match and
\* give it different values; the later one's value is held.
C7_Witness ==
    /\ out.op = "Match" /\ ProbedMatcher.kind = "cmdline"
    /\ out.match.ok
    /\ Len(ProbedEntry.cmdline) = 2
    /\ HasGroup(ProbedEntry.cmdline[1], "r") /\ HasGroup(ProbedEntry.cmdline[2], "r")
    /\ GroupValue(ProbedEntry.cmdline[1], "r", Join(nacl.Cmdline))
          # GroupValue(ProbedEntry.cmdline[2], "r", Join(nacl.Cmdline))
    /\ out.match.matches.kv["r"] = GroupValue(ProbedEntry.cmdline[2], "r", Join(nacl.Cmdline))
-----------------------------------------------------------------------------
(* Claims about the aggregation pass, under Spec (one scrape at a time).   *)

ReadFails(p) == p.statErr \/ p.cmdlineErr
Readable(ps) == SelectSeq(ps, LAMBDA p : ~ReadFails(p))
Seen(pw) == SubSeq(pw.procs, 1, pw.i)
InLoopOrDone(pw) == pw.pc \in {"loop", "done"} /\ ~pw.err

\* the process the next turn of the loop reads
Current(pw) == pw.procs[pw.i + 1]
Turn(w) == pass[w].pc = "loop" /\ pass'[w].pc = "loop" /\ pass'[w].i = pass[w].i + 1

\* C2, the state half: whatever the pass holds is what a pass over the same
\* processes without the ones that failed to read would hold, a finished
\* pass has gone through the whole table and returned its groups, and a pass
\* aborts only where the pass without those processes aborts.
C2_AsIfAbsent ==
    \A w \in Scrapers :
        /\ InLoopOrDone(pass[w]) =>
              /\ pass[w].procGroups =
                    SomeMap(RunPass(matchnamer, pass[w].bootTime,
                                    Readable(Seen(pass[w]))).groups)
              /\ ~RunPass(matchnamer, pass[w].bootTime, Readable(Seen(pass[w]))).panic
              /\ pass[w].pc = "done" =>
                    /\ pass[w].i = Len(pass[w].procs)
                    /\ emitted[w] = CollectMetrics(pass[w].procGroups, scrape)
        /\ pass[w].pc = "panic" =>
              RunPass(matchnamer, pass[w].bootTime,
                      Readable(SubSeq(pass[w].procs, 1, pass[w].i + 1))).panic

\* C2, the step half: the turn of the loop that meets a process whose stat or
\* cmdline read fails adds exactly one to the error counter, changes no group
\* and goes on to the next process.
C2_FailureStep ==
    \A w \in Scrapers :
        (pass[w].pc = "loop" /\ pass[w].i < Len(pass[w].procs)
            /\ ReadFails(Current(pass[w])) /\ pass'[w] # pass[w]) =>
                /\ scrape' = scrape + 1
                /\ pass'[w].procGroups = pass[w].procGroups
                /\ Turn(w)

\* C2: a stat or cmdline read failure costs one error count, skips only that
\* process and leaves the rest of the pass as if the process were absent.
C2_ReadFailureSkipsOne == []C2_AsIfAbsent /\ [][C2_FailureStep]_vars

\* C2 witness: a finished pass returned a group although a process before the
\* folded one failed to read.
C2_Witness ==
    \E w \in Scrapers :
        /\ pass[w].pc = "done" /\ ~pass[w].err
        /\ Len(pass[w].procs) = 2
        /\ ReadFails(pass[w].procs[1])
        /\ DOMAIN pass[w].procGroups.kv # {}
        /\ scrape >= 1

\* the processes of the table folded into a group so far
FoldedInto(pw, key) ==
    {j \in 1..pw.i :
        /\ ~ReadFails(pw.procs[j])
        /\ matchnamer.kind = "first"
        /\ LET r == FirstMatchAndName(matchnamer.rules,
                                      NaclOf(pw.procs[j].Comm, pw.procs[j].Cmdline))
           IN  r.matched /\ key = GroupKey(GetProcAccount(pw.procs[j]).account, r.name)}

\* C3: oldestStartTime of every group is the true minimum of the start times
\* of the processes folded into it (so it is the sentinel 0 only if that
\* minimum is 0), whatever the start times and the boot time.
C3_OldestIsTrueMinimum ==
    \A w \in Scrapers :
        InLoopOrDone(pass[w]) =>
            \A key \in DOMAIN pass[w].procGroups.kv :
                pass[w].procGroups.kv[key].oldestStartTime =
                    MinOf({StartTime(pass[w].bootTime, pass[w].procs[j]) :
                              j \in FoldedInto(pass[w], key)})

\* C4: a pass over two processes ends with the accumulators that the pass
\* over the same two processes in the other order ends with.
C4_OrderIndependent ==
    \A w \in Scrapers :
        (pass[w].pc = "done" /\ ~pass[w].err /\ Len(pass[w].procs) = 2) =>
            pass[w].procGroups.kv =
                RunPass(matchnamer, pass[w].bootTime,
                        <<pass[w].procs[2], pass[w].procs[1]>>).groups
\* the classifier's answer for a process, when there is a classifier
Classified(p) ==
    IF matchnamer.kind = "first"
    THEN FirstMatchAndName(matchnamer.rules, NaclOf(p.Comm, p.Cmdline))
    ELSE NoName

AccountFails(p) == p.acct.osStatErr \/ p.acct.lookupErr

\* a group's accumulator before its first process: all zero
Before(groups, key) ==
    IF key \in DOMAIN groups THEN groups[key]
    ELSE [cpuSystem |-> 0, cpuUser |-> 0, memVirt |-> 0, memRss |-> 0,
          numProcs |-> 0, numThreads |-> 0]

\* C8, as a step: the turn of the loop that meets a process that was read and classified
\* and whose account cannot be resolved adds one to the error counter and
\* folds the process, with all its metrics and a count of one, into the group
\* of the empty account and its group name.
C8_FoldStep ==
    \A w \in Scrapers :
        (pass[w].pc = "loop" /\ pass[w].i < Len(pass[w].procs)
            /\ ~ReadFails(Current(pass[w]))
            /\ Classified(Current(pass[w])).matched
            /\ AccountFails(Current(pass[w]))
            /\ pass'[w] # pass[w]) =>
                LET p == Current(pass[w])
                    key == GroupKey("", Classified(p).name)
                    old == Before(pass[w].procGroups.kv, key)
                    new == pass'[w].procGroups.kv
                IN  /\ scrape' = scrape + 1
                    /\ Turn(w)
                    /\ key \in DOMAIN new
                    /\ new[key].account = "" /\ new[key].name = Classified(p).name
                    /\ new[key].numProcs = old.numProcs + 1
                    /\ new[key].cpuSystem = old.cpuSystem + p.stat.STime
                    /\ new[key].cpuUser = old.cpuUser + p.stat.UTime
                    /\ new[key].memVirt = old.memVirt + p.stat.VirtualMemory
                    /\ new[key].memRss = old.memRss + p.stat.ResidentMemory
                    /\ new[key].numThreads = old.numThreads + p.stat.NumThreads

\* C8: a failed account resolution is counted once and the process is still
\* aggregated, under the empty-string account; it is not dropped.
C8_AccountFailureKeepsProcess == [][C8_FoldStep]_vars

\* C8 witness: the loop has just folded a process whose account lookup failed
\* into the group of the empty account, and the failure was counted.
C8_Witness ==
    \E w \in Scrapers :
        /\ pass[w].pc = "loop" /\ pass[w].i >= 1
        /\ ~ReadFails(pass[w].procs[pass[w].i])
        /\ Classified(pass[w].procs[pass[w].i]).matched
        /\ AccountFails(pass[w].procs[pass[w].i])
        /\ GroupKey("", Classified(pass[w].procs[pass[w].i]).name)
              \in DOMAIN pass[w].procGroups.kv
        /\ scrape >= 1

\* C9, the step half: a failing enumeration adds exactly one to the error
\* counter, reads no process and returns no groups.
C9_FailStep ==
    \A w \in Scrapers :
        (pass[w].pc = "idle" /\ pass'[w].pc = "ret") =>
            /\ scrape' = scrape + 1
            /\ pass'[w].procGroups = NilGroups
            /\ pass'[w].err
            /\ pass'[w].i = 0 /\ pass'[w].procs = <<>>

\* C9, the state half: the Collect of such a pass has read no process and
\* sent the cumulative error count and nothing else.
C9_OnlyErrorCount ==
    \A w \in Scrapers :
        (pass[w].pc = "done" /\ pass[w].err) =>
            /\ pass[w].i = 0
            /\ emitted[w] = {ScrapeErrorsMetric(scrape)}

\* C9: when enumerating the process table fails the pass counts one error,
\* reads no process and returns no groups, and Collect emits no per-group
\* metric and still emits the cumulative scrape-error count.
C9_EnumerationFailure == []C9_OnlyErrorCount /\ [][C9_FailStep]_vars

\* C9 witness: a second scrape whose enumeration failed emitted the count
\* accumulated over both scrapes and nothing else.
C9_Witness ==
    \E w \in Scrapers :
        /\ pass[w].pc = "done" /\ pass[w].err /\ pass[w].nth = 2
        /\ scrape >= 2
        /\ emitted[w] = {ScrapeErrorsMetric(scrape)}

\* C10: no pass aborts, whatever classifier main handed over; with the nil
\* classifier of a start without config path a finished pass has no groups.
C10_PassAlwaysReturns ==
    \A w \in Scrapers :
        /\ pass[w].pc # "panic"
        /\ (matchnamer.kind = "nil" /\ pass[w].pc = "done" /\ ~pass[w].err)
              => pass[w].procGroups = SomeMap(EmptyMap)

-----------------------------------------------------------------------------
(* The claim about simultaneous scrapes, under SpecConc. *)

\* the increments of errors.scrape a finished pass has made
FailuresCounted(pw) ==
    IF pw.err THEN 1
    ELSE (IF pw.bootErr THEN 1 ELSE 0)
         + RunPass(matchnamer, pw.bootTime, pw.procs).incs

RECURSIVE SumOver(_)
SumOver(S) ==
    IF S = {} THEN 0
    ELSE LET w == CHOOSE x \in S : TRUE
         IN  FailuresCounted(pass[w]) + SumOver(S \ {w})

Finished(ws) == \A w \in ws : pass[w].pc = "done"

\* C5: once every pass that was started has finished, the error counter
\* equals the number of failures those passes counted: no increment is lost.
C5_NoLostIncrement ==
    \A ws \in SUBSET Scrapers :
        (Finished(ws) /\ \A w \in Scrapers \ ws : pass[w].pc = "idle")
            => scrape = SumOver(ws)

=============================================================================
